---- MODULE Spec2Model ----
(***************************************************************************)
(* State-machine model of layout_generator.py: the randomized track        *)
(* generator (draw_metal_cell_vertical), the strap generator (draw_metal1) *)
(* and the via pipeline (generate_vias_from_metals), run in the order of    *)
(* the driver: tracks, straps, vias.                                       *)
(*                                                                         *)
(* Lengths of the specs are integers.  Coordinates stored in the cell are  *)
(* held in half units (twice the value), so that the "* 0.5" of the centre *)
(* and half-size computations stays integral.                              *)
(*                                                                         *)
(* The random generator is a stream of raw draws.  A raw draw u stands for *)
(* the fraction u / RawMax: rng.uniform(lo, hi) is lo + (hi - lo) * u /    *)
(* RawMax with u in 0..RawMax, rng.random() is u / RawMax with u in        *)
(* 0..RawMax-1 (it never returns 1).                                       *)
(***************************************************************************)
EXTENDS Integers, Sequences, FiniteSets, TLC

\* ------------------------------------------------------------------ bounds
\* The extent of the tracks.
MaxTotalX == 5
MaxTotalY == 5
\* The raw draws of the generator are the fractions 0/RawMax .. RawMax/RawMax.
RawMax == 2
\* A density d stands for d / DensityDen.
DensityDen == 2
\* No cell grows past MaxRects rectangles (a loop that never ends stops there).
MaxRects == 40

\* ------------------------------------------------------- program constants
M1_LAYER == 110
M2_LAYER == 111
VIA_LAYER == 112
DEFAULT_LAYER == 1
\* tol=1e-3 of _unique_positions, below one step of the half-unit grid
Tol == 0

VARIABLES
    spec,       \* MetalGenSpec
    strap,      \* arguments of draw_metal1
    vspec,      \* ViaGenSpec
    cell,       \* the cell: rectangles in insertion order
    pc,         \* position in the pipeline
    x,          \* column cursor of draw_metal_cell_vertical
    y,          \* fill cursor of _draw_one_track_vertical / draw_metal1
    columns,    \* x_base of every call of _draw_one_track_vertical, in order
    gaps,       \* number of tip-to-tip gaps sampled
    bboxes,     \* candidates returned by _calc_candidates
    bi,         \* number of candidates already visited by the sampler
    centers,    \* centres kept by _sample_centers_from_bboxes
    kept,       \* centres after column cleaning
    final,      \* centres after row cleaning
    vias,       \* list returned by generate_vias_from_metals
    tape,       \* raw draws of the first of two runs
    pos,        \* raw draws consumed by the current run
    run,        \* 0: a single run; 1, 2: first and second run on the same inputs
    first       \* result of the first run: [cell, vias]

vars == <<spec, strap, vspec, cell, pc, x, y, columns, gaps, bboxes, bi,
          centers, kept, final, vias, tape, pos, run, first>>

\* ----------------------------------------------------------------- helpers
Min(a, b) == IF a <= b THEN a ELSE b
Max(a, b) == IF a >= b THEN a ELSE b
Abs(a) == IF a >= 0 THEN a ELSE -a

\* Python's round(): to the nearest integer, halves to the even one.
Round(n, d) ==
    LET q == n \div d
        r == n % d
    IN  IF 2 * r < d THEN q
        ELSE IF 2 * r > d THEN q + 1
        ELSE IF q % 2 = 0 THEN q ELSE q + 1

\* The raw draws a call of the generator can return: any of S, except that
\* the second of two runs is seeded like the first and reads the same stream.
Unseeded(S) == S
Seeded(S) == IF run = 2 THEN {tape[pos + 1]} ELSE S

Uniform(lo, hi, u) == lo + ((hi - lo) * u) \div RawMax

Record(u) == IF run = 1 THEN Append(tape, u) ELSE tape

\* _rand_quantized returning the quantized value as it is
_rand_quantized_noclamp(lo, hi, grid, u) ==
    LET l == IF hi < lo THEN hi ELSE lo
        h == IF hi < lo THEN lo ELSE hi
        val == Uniform(l, h, u)
    IN  IF grid <= 0 THEN val ELSE Round(val, grid) * grid

_rand_quantized(lo, hi, grid, u) ==
    LET l == IF hi < lo THEN hi ELSE lo
        h == IF hi < lo THEN lo ELSE hi
        val == Uniform(l, h, u)
    IN  IF grid <= 0 THEN val
        ELSE Min(Max(Round(val, grid) * grid, l), h)

\* A length of a spec on the cell's half-unit grid.
H(v) == 2 * v

\* gdspy.Rectangle((x0, y0), (x1, y1), layer): corners on the half-unit grid.
Rectangle(x0, y0, x1, y1, layer) ==
    [x0 |-> x0, y0 |-> y0, x1 |-> x1, y1 |-> y1, layer |-> layer]

\* ------------------------------------------------------- geometry helpers
_get_layer_polys(c, layer) == SelectSeq(c, LAMBDA r : r.layer = layer)

_bbox(p) ==
    [x0 |-> Min(p.x0, p.x1), y0 |-> Min(p.y0, p.y1),
     x1 |-> Max(p.x0, p.x1), y1 |-> Max(p.y0, p.y1)]

\* _rect_from_bbox returns None for a collapsed or inverted box.
IsRect(b) == ~(b.x1 <= b.x0 \/ b.y1 <= b.y0)

SeqMap(f(_), s) == [i \in 1..Len(s) |-> f(s[i])]

_assist_polys_horizontal(polys, ex) ==
    SelectSeq(SeqMap(LAMBDA p : [x0 |-> _bbox(p).x0 + H(ex), y0 |-> _bbox(p).y0,
                                 x1 |-> _bbox(p).x1 - H(ex), y1 |-> _bbox(p).y1],
                     polys),
              IsRect)

_assist_polys_vertical(polys, ey) ==
    SelectSeq(SeqMap(LAMBDA p : [x0 |-> _bbox(p).x0, y0 |-> _bbox(p).y0 + H(ey),
                                 x1 |-> _bbox(p).x1, y1 |-> _bbox(p).y1 - H(ey)],
                     polys),
              IsRect)

\* gdspy.boolean(a, b, 'and') for two sequences of rectangles none of which
\* overlaps or touches another of its own sequence: the pairwise
\* intersections of positive area, a-major.
Boolean(a, b) ==
    LET n == Len(b)
        pair(k) == LET p == a[((k - 1) \div n) + 1]
                       q == b[((k - 1) % n) + 1]
                   IN  [x0 |-> Max(p.x0, q.x0), y0 |-> Max(p.y0, q.y0),
                        x1 |-> Min(p.x1, q.x1), y1 |-> Min(p.y1, q.y1)]
    IN  SelectSeq([k \in 1..(Len(a) * n) |-> pair(k)], IsRect)

_calc_candidates(c, m1_layer, m2_layer, ex, ey) ==
    LET assist_m1 == _assist_polys_horizontal(_get_layer_polys(c, m1_layer), ex)
        assist_m2 == _assist_polys_vertical(_get_layer_polys(c, m2_layer), ey)
    IN  IF assist_m1 = <<>> \/ assist_m2 = <<>> THEN <<>>
        ELSE Boolean(assist_m1, assist_m2)

\* sorted(vals): ascending.
RECURSIVE Sorted(_)
Sorted(vals) ==
    IF vals = <<>> THEN <<>>
    ELSE LET m == CHOOSE i \in 1..Len(vals) :
                    \A j \in 1..Len(vals) : vals[i] <= vals[j]
         IN  <<vals[m]>> \o Sorted(SubSeq(vals, 1, m - 1) \o SubSeq(vals, m + 1, Len(vals)))

RECURSIVE Uniq(_, _, _)
Uniq(vals, i, uniq) ==
    IF i > Len(vals) THEN uniq
    ELSE Uniq(vals, i + 1,
              IF Abs(vals[i] - uniq[Len(uniq)]) > Tol THEN Append(uniq, vals[i]) ELSE uniq)

_unique_positions(vals) ==
    IF vals = <<>> THEN <<>>
    ELSE Uniq(Sorted(vals), 2, <<Sorted(vals)[1]>>)

\* Track positions on the half-unit grid keep the sum x0 + x1 halved exactly,
\* because the metal corners are even there.
x_tracks(polys_m2) == _unique_positions(SeqMap(LAMBDA p : (_bbox(p).x0 + _bbox(p).x1) \div 2, polys_m2))
y_tracks(polys_m1) == _unique_positions(SeqMap(LAMBDA p : (_bbox(p).y0 + _bbox(p).y1) \div 2, polys_m1))

\* nearest_idx: the first index (from 0) at the least distance, -1 for no track.
nearest_idx(v, arr) ==
    IF arr = <<>> THEN -1
    ELSE (CHOOSE i \in 1..Len(arr) :
            /\ \A j \in 1..Len(arr) : Abs(arr[i] - v) <= Abs(arr[j] - v)
            /\ \A j \in 1..(i - 1) : Abs(arr[j] - v) > Abs(arr[i] - v)) - 1

\* The keys of a dict filled in the order of pts: by first appearance.
RECURSIVE Keys(_, _, _)
Keys(ks, i, acc) ==
    IF i > Len(ks) THEN acc
    ELSE Keys(ks, i + 1,
              IF \E j \in 1..Len(acc) : acc[j] = ks[i] THEN acc ELSE Append(acc, ks[i]))

\* list.sort(key=lambda t: t[axis]): stable.
RECURSIVE SortBy(_, _)
SortBy(pts, axis) ==
    IF pts = <<>> THEN <<>>
    ELSE LET m == CHOOSE i \in 1..Len(pts) :
                    /\ \A j \in 1..Len(pts) : pts[i][axis] <= pts[j][axis]
                    /\ \A j \in 1..(i - 1) : pts[j][axis] > pts[i][axis]
         IN  <<pts[m]>> \o SortBy(SubSeq(pts, 1, m - 1) \o SubSeq(pts, m + 1, Len(pts)), axis)

\* The sweep that measures from the immediate predecessor, kept or not.
RECURSIVE SweepPred(_, _, _, _, _)
SweepPred(pts, axis, pitch, i, acc) ==
    IF i > Len(pts) THEN acc
    ELSE SweepPred(pts, axis, pitch, i + 1,
                   IF i = 1 \/ (pts[i][axis] - pts[i - 1][axis]) >= H(pitch)
                   THEN Append(acc, pts[i]) ELSE acc)

\* The greedy sweep of _pitch_clean, lines 251-255 and 266-270: acc holds the
\* points kept so far, the last of them is `last`.
RECURSIVE Sweep(_, _, _, _, _)
Sweep(pts, axis, pitch, i, acc) ==
    IF i > Len(pts) THEN acc
    ELSE Sweep(pts, axis, pitch, i + 1,
               IF acc = <<>> \/ (pts[i][axis] - acc[Len(acc)][axis]) >= H(pitch)
               THEN Append(acc, pts[i]) ELSE acc)

RECURSIVE Concat(_, _)
Concat(f(_), ks) ==
    IF ks = <<>> THEN <<>> ELSE f(Head(ks)) \o Concat(f, Tail(ks))

\* One cleaning pass: group by nearest track (the dict keeps the groups in the
\* order of their first point), sort each group, sweep it.
Clean(pts, axis, other, tracks, pitch) ==
    LET key(p) == nearest_idx(p[axis], tracks)
        ks == Keys(SeqMap(key, pts), 1, <<>>)
        group(k) == Sweep(SortBy(SelectSeq(pts, LAMBDA p : key(p) = k), other),
                          other, pitch, 1, <<>>)
    IN  Concat(group, ks)

\* _pitch_clean, lines 242-255: column cleaning, by via_pitch_y.
ColumnCleanSwapped(cs, vpx, vpy, polys_m2) == Clean(cs, 1, 2, x_tracks(polys_m2), vpx)
ColumnClean(cs, vpx, vpy, polys_m2) == Clean(cs, 1, 2, x_tracks(polys_m2), vpy)

\* _pitch_clean, lines 257-271: row cleaning, by via_pitch_x.
RowClean(ks, vpx, polys_m1) == Clean(ks, 2, 1, y_tracks(polys_m1), vpx)

\* --------------------------------------------------------------- the specs
MetalGenSpec(w, p, g0, g1, gr, l0, l1, tx, ty, layer, o) ==
    [wire_cd |-> w, track_pitch |-> p, min_t2t |-> g0, max_t2t |-> g1,
     t2t_grid |-> gr, min_length |-> l0, max_length |-> l1,
     total_x |-> tx, total_y |-> ty, layer |-> layer, origin |-> o]

StrapArgs(lx, w, p, ty) ==
    [length_x |-> lx, width |-> w, pitch |-> p, total_y |-> ty, layer |-> M1_LAYER]

\* density is held in units of 1 / DensityDen.
ViaGenSpec(vx, vy, d, ex, ey, vpx, vpy) ==
    [via_x |-> vx, via_y |-> vy, density |-> d, enclosure_x |-> ex,
     enclosure_y |-> ey, via_pitch_x |-> vpx, via_pitch_y |-> vpy,
     via_layer |-> VIA_LAYER]

Start(m, s, v) ==
    /\ spec = m
    /\ strap = s
    /\ vspec = v
    /\ cell = <<>>
    /\ pc = "init"
    /\ x = 0
    /\ y = 0
    /\ columns = <<>>
    /\ gaps = 0
    /\ bboxes = <<>>
    /\ bi = 0
    /\ centers = <<>>
    /\ kept = <<>>
    /\ final = <<>>
    /\ vias = <<>>
    /\ tape = <<>>
    /\ pos = 0
    /\ first = [cell |-> <<>>, vias |-> <<>>]

\* ---------------------------------------------------------- track generator
\* draw_metal_cell_vertical, lines 81-85: a new library, cell and generator.
DrawMetalCell ==
    /\ pc = "init"
    /\ cell' = <<>>
    /\ x' = 0
    /\ pos' = 0
    /\ pc' = "col"
    /\ UNCHANGED <<spec, strap, vspec, y, columns, gaps, bboxes, bi, centers,
                   kept, final, vias, tape, run, first>>

\* draw_metal_cell_vertical, lines 86-90: the column loop's test; the call of
\* _draw_one_track_vertical, or the return and the call of draw_metal1.
ColumnLoop ==
    /\ pc = "col"
    /\ IF x + spec.wire_cd <= spec.total_x
       THEN /\ columns' = Append(columns, x)
            /\ y' = 0
            /\ pc' = "seg"
       ELSE /\ y' = 0
            /\ pc' = "straps"
            /\ UNCHANGED columns
    /\ UNCHANGED <<spec, strap, vspec, cell, x, gaps, bboxes, bi, centers,
                   kept, final, vias, tape, pos, run, first>>

\* x += spec.track_pitch, line 88
NextColumnByWidth(xb) == xb + spec.wire_cd
NextColumn(xb) == xb + spec.track_pitch

\* cell.add(rect)
Add(c, rect) == Append(c, rect)

\* _draw_one_track_vertical, lines 52-70: one segment, or the end of the column.
SegmentStep ==
    /\ pc = "seg"
    /\ LET yt == spec.total_y
           l_hi == Min(spec.max_length, yt - y)
       IN  IF y < yt /\ ~(l_hi < spec.min_length)
           THEN /\ Len(cell) < MaxRects
                /\ \E u \in Seeded(0..RawMax) :
                     LET l == _rand_quantized(spec.min_length, l_hi, 0, u)
                     IN  /\ cell' = Add(cell,
                                Rectangle(H(spec.origin[1] + x), H(spec.origin[2] + y),
                                          H(spec.origin[1] + x + spec.wire_cd),
                                          H(spec.origin[2] + y + l), spec.layer))
                         /\ y' = y + l
                         /\ tape' = Record(u)
                         /\ pos' = pos + 1
                         /\ IF y + l >= yt
                            THEN /\ x' = NextColumn(x)
                                 /\ pc' = "col"
                            ELSE /\ pc' = "gap"
                                 /\ UNCHANGED x
           ELSE /\ x' = NextColumn(x)
                /\ pc' = "col"
                /\ UNCHANGED <<cell, y, tape, pos>>
    /\ UNCHANGED <<spec, strap, vspec, columns, gaps, bboxes, bi, centers,
                   kept, final, vias, run, first>>

\* _draw_one_track_vertical, lines 72-77: one gap, or the end of the column.
GapStep ==
    /\ pc = "gap"
    /\ LET t_hi == Min(spec.max_t2t, spec.total_y - y)
       IN  IF t_hi < spec.min_t2t
           THEN /\ x' = NextColumn(x)
                /\ pc' = "col"
                /\ UNCHANGED <<y, gaps, tape, pos>>
           ELSE \E u \in Seeded(0..RawMax) :
                  /\ y' = y + _rand_quantized(spec.min_t2t, t_hi, spec.t2t_grid, u)
                  /\ gaps' = gaps + 1
                  /\ tape' = Record(u)
                  /\ pos' = pos + 1
                  /\ pc' = "seg"
                  /\ UNCHANGED x
    /\ UNCHANGED <<spec, strap, vspec, cell, columns, bboxes, bi, centers,
                   kept, final, vias, run, first>>

\* ---------------------------------------------------------- strap generator
\* y += pitch, line 111
NextStrapStuck(yb) == yb
NextStrap(yb) == yb + strap.pitch

\* draw_metal1, lines 103-112: one strap, or the return and the call of
\* generate_vias_from_metals.
StrapStep ==
    /\ pc = "straps"
    /\ IF y + strap.width <= strap.total_y
       THEN /\ Len(cell) < MaxRects
            /\ cell' = Add(cell, Rectangle(0, H(y), H(strap.length_x),
                                           H(y + strap.width), strap.layer))
            /\ y' = NextStrap(y)
            /\ UNCHANGED pc
       ELSE /\ pc' = "vias"
            /\ UNCHANGED <<cell, y>>
    /\ UNCHANGED <<spec, strap, vspec, x, columns, gaps, bboxes, bi, centers,
                   kept, final, vias, tape, pos, run, first>>

\* ------------------------------------------------------------ via pipeline
\* generate_vias_from_metals, lines 283-288: a new generator, the candidates.
CalcCandidates ==
    /\ pc = "vias"
    /\ bboxes' = _calc_candidates(cell, M1_LAYER, M2_LAYER,
                                  vspec.enclosure_x, vspec.enclosure_y)
    /\ bi' = 0
    /\ centers' = <<>>
    /\ pc' = "sample"
    /\ UNCHANGED <<spec, strap, vspec, cell, x, y, columns, gaps, kept, final,
                   vias, tape, pos, run, first>>

\* rng.random() < density, line 224: u / RawMax < density / DensityDen
AtMost(u, density) == u * DensityDen <= density * RawMax
Below(u, density) == u * DensityDen < density * RawMax

\* (x1 - x0) >= vx and (y1 - y0) >= vy, line 223
FitsAny(b, vx, vy) == TRUE
Fits(b, vx, vy) == (b.x1 - b.x0) >= H(vx) /\ (b.y1 - b.y0) >= H(vy)

\* ((x0 + x1) * 0.5, (y0 + y1) * 0.5), line 225
Center(b) == <<(b.x0 + b.x1) \div 2, (b.y0 + b.y1) \div 2>>

\* _sample_centers_from_bboxes, lines 222-225: one candidate.
SampleStep ==
    /\ pc = "sample"
    /\ bi < Len(bboxes)
    /\ LET b == bboxes[bi + 1]
       IN  IF Fits(b, vspec.via_x, vspec.via_y)
           THEN \E u \in Seeded(0..(RawMax - 1)) :
                  /\ centers' = IF Below(u, vspec.density)
                                THEN Append(centers, Center(b))
                                ELSE centers
                  /\ tape' = Record(u)
                  /\ pos' = pos + 1
           ELSE UNCHANGED <<centers, tape, pos>>
    /\ bi' = bi + 1
    /\ UNCHANGED <<spec, strap, vspec, cell, pc, x, y, columns, gaps, bboxes,
                   kept, final, vias, run, first>>

\* The via of lines 311-316 centred on c.
ViaRect(c) ==
    Rectangle(c[1] - vspec.via_x, c[2] - vspec.via_y,
              c[1] + vspec.via_x, c[2] + vspec.via_y, vspec.via_layer)

\* cell.add for every rectangle of a list, in order
Forget(c, rects) == c
AddAll(c, rects) == c \o rects

\* generate_vias_from_metals, lines 298-320: pitch cleaning, the vias.
PitchCleanEmit ==
    /\ pc = "sample"
    /\ bi = Len(bboxes)
    /\ LET polys_m1 == _get_layer_polys(cell, M1_LAYER)
           polys_m2 == _get_layer_polys(cell, M2_LAYER)
           k == IF centers = <<>> THEN <<>>
                ELSE ColumnClean(centers, vspec.via_pitch_x, vspec.via_pitch_y, polys_m2)
           f == IF centers = <<>> THEN <<>>
                ELSE RowClean(k, vspec.via_pitch_x, polys_m1)
       IN  /\ kept' = k
           /\ final' = f
           /\ vias' = SeqMap(ViaRect, f)
           /\ cell' = AddAll(cell, SeqMap(ViaRect, f))
    /\ pc' = "done"
    /\ UNCHANGED <<spec, strap, vspec, x, y, columns, gaps, bboxes, bi, centers,
                   tape, pos, run, first>>

Next ==
    \/ DrawMetalCell
    \/ ColumnLoop
    \/ SegmentStep
    \/ GapStep
    \/ StrapStep
    \/ CalcCandidates
    \/ SampleStep
    \/ PitchCleanEmit

\* ------------------------------------------------------------ the inputs
\* Valid specs: lengths, widths and pitches > 0, max >= min, tracks and
\* straps that neither overlap nor touch (pitch > width).
MetalSpecs ==
    { MetalGenSpec(1, 2, 1, 2, 0, 1, 3, 3, MaxTotalY, M2_LAYER, <<0, 0>>),
      MetalGenSpec(1, 3, 1, 3, 2, 1, 2, MaxTotalX, MaxTotalY, M2_LAYER, <<1, 2>>),
      MetalGenSpec(1, 2, 1, 2, 1, MaxTotalY, MaxTotalY, MaxTotalX, MaxTotalY, M2_LAYER, <<0, 0>>),
      MetalGenSpec(10, 20, 1, 2, 0, 50, 50, 100, 50, M2_LAYER, <<0, 0>>),
      MetalGenSpec(2, 3, 1, 2, 0, 1, 2, 1, MaxTotalY, M2_LAYER, <<0, 0>>),
      MetalGenSpec(1, 2, 1, 2, 0, MaxTotalY + 1, MaxTotalY + 2, 3, MaxTotalY, M2_LAYER, <<0, 0>>),
      MetalGenSpec(1, 2, 1, 2, 0, 2, 3, 3, MaxTotalY, DEFAULT_LAYER, <<0, 0>>) }

\* The driver's call: straps over the extent of the tracks.
StrapsFor(m) ==
    IF m.total_x = 100
    THEN { StrapArgs(m.total_x, 50, 60, m.total_y) }
    ELSE { StrapArgs(m.total_x, w, w + 1, m.total_y) : w \in {1, 2} }

ViaSpecs ==
    { ViaGenSpec(1, 1, DensityDen, 0, 0, vpx, vpy) : vpx \in {1, 3}, vpy \in {1, 3} }
    \cup { ViaGenSpec(1, 1, 0, 0, 0, 1, 1),
           ViaGenSpec(1, 1, 1, 0, 0, 3, 3),
           ViaGenSpec(1, 2, DensityDen, 0, 0, 1, 1),
           ViaGenSpec(1, 1, DensityDen, 1, 1, 1, 1),
           ViaGenSpec(1, 1, 1, 0, 1, 3, 1) }

Init ==
    /\ run = 0
    /\ \E m \in MetalSpecs : \E s \in StrapsFor(m) : \E v \in ViaSpecs :
         Start(m, s, v)

Spec == Init /\ [][Next]_vars

\* The program is sequential: the next step of a generator that has not
\* returned is always taken.
FairViaSpecs == { ViaGenSpec(1, 1, 1, 0, 0, 3, 3) }

InitFair ==
    /\ run = 0
    /\ \E m \in MetalSpecs : \E s \in StrapsFor(m) : \E v \in FairViaSpecs :
         Start(m, s, v)

\* The steps of the two metal generators.
MetalStep == DrawMetalCell \/ ColumnLoop \/ SegmentStep \/ GapStep \/ StrapStep

FairSpec == InitFair /\ [][Next]_vars /\ WF_vars(MetalStep)

\* A second run of the pipeline on the same specs: a fresh library, and
\* generators seeded as in the first run.
Rerun ==
    /\ pc = "done"
    /\ run = 1
    /\ first' = [cell |-> cell, vias |-> vias]
    /\ run' = 2
    /\ pc' = "init"
    /\ cell' = <<>>
    /\ x' = 0
    /\ y' = 0
    /\ columns' = <<>>
    /\ gaps' = 0
    /\ bboxes' = <<>>
    /\ bi' = 0
    /\ centers' = <<>>
    /\ kept' = <<>>
    /\ final' = <<>>
    /\ vias' = <<>>
    /\ pos' = 0
    /\ UNCHANGED <<spec, strap, vspec, tape>>

TwiceMetalSpecs ==
    { MetalGenSpec(1, 2, 1, 2, 2, 2, 3, 3, 4, M2_LAYER, <<0, 0>>) }

TwiceViaSpecs ==
    { ViaGenSpec(1, 1, 1, 0, 0, 1, 3) }

InitTwice ==
    /\ run = 1
    /\ \E m \in TwiceMetalSpecs : \E s \in StrapsFor(m) : \E v \in TwiceViaSpecs :
         Start(m, s, v)

NextTwice == Next \/ Rerun

SpecTwice == InitTwice /\ [][NextTwice]_vars

\* Specs a caller can pass that break the invariants of the data model.
MalformedMetal(m) ==
    \/ m.max_length < m.min_length
    \/ m.max_t2t < m.min_t2t
    \/ m.wire_cd <= 0
    \/ m.track_pitch <= 0
    \/ m.min_length <= 0
    \/ m.min_t2t <= 0
    \/ m.total_x <= 0
    \/ m.total_y <= 0

MalformedStrap(a) == a.width <= 0 \/ a.pitch <= 0 \/ a.length_x <= 0 \/ a.total_y <= 0

MalformedVia(v) ==
    \/ v.density < 0
    \/ v.density > DensityDen
    \/ v.via_x <= 0
    \/ v.via_y <= 0
    \/ v.via_pitch_x <= 0
    \/ v.via_pitch_y <= 0

AnyMetalSpecs ==
    { MetalGenSpec(1, 2, 1, 2, 0, 3, 2, 3, MaxTotalY, M2_LAYER, <<0, 0>>),
      MetalGenSpec(0, 2, 1, 2, 0, 2, 3, 3, MaxTotalY, M2_LAYER, <<0, 0>>),
      MetalGenSpec(-1, 2, 1, 2, 0, 2, 3, 3, MaxTotalY, M2_LAYER, <<0, 0>>),
      MetalGenSpec(1, 0, 1, 2, 0, MaxTotalY, MaxTotalY, 3, MaxTotalY, M2_LAYER, <<0, 0>>),
      MetalGenSpec(1, -1, 1, 2, 0, MaxTotalY, MaxTotalY, 3, MaxTotalY, M2_LAYER, <<0, 0>>),
      MetalGenSpec(1, 2, 1, 2, 0, 2, 3, 3, MaxTotalY, M2_LAYER, <<0, 0>>) }

AnyStraps(m) ==
    { StrapArgs(m.total_x, 1, 2, m.total_y), StrapArgs(m.total_x, 1, 0, m.total_y),
      StrapArgs(m.total_x, 0, 2, m.total_y) }

AnyViaSpecs ==
    { ViaGenSpec(1, 1, d, 0, 0, 1, 1) : d \in {-1, 1, DensityDen + 1} }
    \cup { ViaGenSpec(0, 1, DensityDen, 0, 0, 1, 0) }

InitAny ==
    /\ run = 0
    /\ \E m \in AnyMetalSpecs : \E s \in AnyStraps(m) : \E v \in AnyViaSpecs :
         Start(m, s, v)

SpecAny == InitAny /\ [][Next]_vars

\* ------------------------------------------------------------- the claims
Range(s) == {s[i] : i \in 1..Len(s)}
Tracks == {r \in Range(cell) : r.layer = spec.layer}
Straps == {r \in Range(cell) : r.layer = strap.layer}
Vias == {r \in Range(cell) : r.layer = vspec.via_layer}
Within(r, x0, y0, x1, y1) ==
    /\ x0 <= r.x0 /\ r.x0 < r.x1 /\ r.x1 <= x1
    /\ y0 <= r.y0 /\ r.y0 < r.y1 /\ r.y1 <= y1
InExtent(r) ==
    Within(r, H(spec.origin[1]), H(spec.origin[2]),
           H(spec.origin[1] + spec.total_x), H(spec.origin[2] + spec.total_y))
TracksReturned == pc \in {"straps", "vias", "sample", "done"}

\* C2: every track and via rectangle lies within the extent of the tracks,
\* origin to origin + (total_x, total_y), every strap within
\* [0, length_x] x [0, total_y], and each has positive width and height.
C2_Containment ==
    /\ \A r \in Tracks \cup Vias : InExtent(r)
    /\ \A r \in Straps : Within(r, 0, 0, H(strap.length_x), H(strap.total_y))

C2_Witness ==
    /\ pc = "done"
    /\ spec.origin # <<0, 0>>
    /\ Len(vias) >= 2
    /\ \E r \in Tracks : r.y1 = H(spec.origin[2] + spec.total_y)

\* Two segments of one column with no segment of that column between them.
ConsecutiveSegments(a, b) ==
    /\ a.x0 = b.x0
    /\ a.y1 <= b.y0
    /\ ~\E c \in Tracks : c.x0 = a.x0 /\ a.y1 <= c.y0 /\ c.y1 <= b.y0

\* C3: between consecutive segments of a column the gap is within
\* [min_t2t, max_t2t], and every segment's length is within
\* [min_length, max_length].
C3_GapLegality ==
    /\ \A a, b \in Tracks :
         ConsecutiveSegments(a, b) =>
           /\ H(spec.min_t2t) <= b.y0 - a.y1
           /\ b.y0 - a.y1 <= H(spec.max_t2t)
    /\ \A a \in Tracks :
         /\ H(spec.min_length) <= a.y1 - a.y0
         /\ a.y1 - a.y0 <= H(spec.max_length)

\* a column of three segments, its gaps quantized to a grid that the clamp
\* has to correct
C3_Witness ==
    /\ TracksReturned
    /\ spec.t2t_grid > 1
    /\ \E a, b, c \in Tracks :
         /\ ConsecutiveSegments(a, b) /\ ConsecutiveSegments(b, c)
         /\ (b.y0 - a.y1) % H(spec.t2t_grid) # 0

\* The nearest x-track and y-track of each point of s.
XTrackOf(s) ==
    LET xt == x_tracks(_get_layer_polys(cell, M2_LAYER))
    IN  [i \in 1..Len(s) |-> nearest_idx(s[i][1], xt)]
YTrackOf(s) ==
    LET yt == y_tracks(_get_layer_polys(cell, M1_LAYER))
    IN  [i \in 1..Len(s) |-> nearest_idx(s[i][2], yt)]

\* s[i] and s[j] are neighbours along axis among the points of s that share
\* their track; track[k] is the track of s[k].
Neighbours(s, i, j, axis, track) ==
    /\ i # j
    /\ track[i] = track[j]
    /\ s[i][axis] <= s[j][axis]
    /\ ~\E k \in 1..Len(s) :
          /\ k # i /\ k # j /\ track[k] = track[i]
          /\ s[i][axis] < s[k][axis] /\ s[k][axis] < s[j][axis]

\* C4: among the surviving centres, vertically consecutive centres of one
\* x-track are at least via_pitch_y apart, horizontally consecutive centres
\* of one y-track at least via_pitch_x.
C4_PitchEnforcement ==
    pc = "done" =>
      LET xs == XTrackOf(final)
          ys == YTrackOf(final)
      IN  \A i, j \in 1..Len(final) :
            /\ Neighbours(final, i, j, 2, xs) =>
                 final[j][2] - final[i][2] >= H(vspec.via_pitch_y)
            /\ Neighbours(final, i, j, 1, ys) =>
                 final[j][1] - final[i][1] >= H(vspec.via_pitch_x)

\* centres were dropped in a column and in a row, and neighbours survive in both
C4_Witness ==
    /\ pc = "done"
    /\ Len(kept) < Len(centers)
    /\ Len(final) < Len(kept)
    /\ \E i, j \in 1..Len(final) : Neighbours(final, i, j, 2, XTrackOf(final))
    /\ \E i, j \in 1..Len(final) : Neighbours(final, i, j, 1, YTrackOf(final))

Filtered == {i \in 1..Len(bboxes) : Fits(bboxes[i], vspec.via_x, vspec.via_y)}

\* The centres of the candidates that pass the size filter.
FilteredCenters == SeqMap(Center, SelectSeq(bboxes, LAMBDA b : Fits(b, vspec.via_x, vspec.via_y)))

\* No two candidate centres of one track are closer than the via pitch.
PitchNeverTriggers ==
    LET cs == FilteredCenters
        xs == XTrackOf(cs)
        ys == YTrackOf(cs)
    IN  \A i, j \in 1..Len(cs) :
          i # j =>
            /\ xs[i] = xs[j] => Abs(cs[i][2] - cs[j][2]) >= H(vspec.via_pitch_y)
            /\ ys[i] = ys[j] => Abs(cs[i][1] - cs[j][1]) >= H(vspec.via_pitch_x)

\* C6: density 0 gives no via; density 1 with pitches that never trigger
\* gives exactly one via for every candidate that is at least via_x by via_y.
C6_DensityExtremes ==
    pc = "done" =>
      /\ vspec.density = 0 => vias = <<>> /\ Vias = {}
      /\ (vspec.density = DensityDen /\ PitchNeverTriggers) =>
           /\ Len(vias) = Cardinality(Filtered)
           /\ \A b \in Filtered :
                Cardinality({i \in 1..Len(vias) : vias[i] = ViaRect(Center(bboxes[b]))}) = 1

C6_Witness ==
    /\ pc = "done"
    /\ vspec.density = DensityDen
    /\ PitchNeverTriggers
    /\ Cardinality(Filtered) >= 3
    /\ Cardinality(Filtered) < Len(bboxes)

C6_WitnessZero ==
    /\ pc = "done"
    /\ vspec.density = 0
    /\ Cardinality(Filtered) >= 4

\* The columns the loop of draw_metal_cell_vertical has to visit.
ColumnIndexes == {k \in 0..spec.total_x : k * spec.track_pitch + spec.wire_cd <= spec.total_x}

\* C7: the columns are exactly the x_base = k * track_pitch with
\* x_base + wire_cd <= total_x, left to right (5 columns at 0, 20, 40, 60, 80
\* for total_x = 100, wire_cd = 10, track_pitch = 20); with min_length =
\* max_length = total_y each column is one segment over [0, total_y] and no
\* gap is sampled.
C7_ColumnLayout ==
    TracksReturned =>
      /\ Len(columns) = Cardinality(ColumnIndexes)
      /\ \A i \in 1..Len(columns) : columns[i] = (i - 1) * spec.track_pitch
      /\ (spec.total_x = 100 /\ spec.wire_cd = 10 /\ spec.track_pitch = 20) =>
           columns = <<0, 20, 40, 60, 80>>
      /\ (spec.min_length = spec.total_y /\ spec.max_length = spec.total_y) =>
           /\ gaps = 0
           /\ Cardinality(Tracks) = Len(columns)
           /\ \A i \in 1..Len(columns) :
                Rectangle(H(spec.origin[1] + columns[i]), H(spec.origin[2]),
                          H(spec.origin[1] + columns[i] + spec.wire_cd),
                          H(spec.origin[2] + spec.total_y), spec.layer) \in Tracks

C7_Witness ==
    /\ TracksReturned
    /\ spec.total_x = 100 /\ spec.wire_cd = 10 /\ spec.track_pitch = 20
    /\ spec.min_length = spec.total_y /\ spec.max_length = spec.total_y
    /\ Len(columns) = 5
    /\ Cardinality(Tracks) = 5

ViaFrameStep ==
    pc \in {"vias", "sample"} =>
      /\ cell' = cell \o (IF pc' = "done" THEN vias' ELSE <<>>)
      /\ _get_layer_polys(cell', M1_LAYER) = _get_layer_polys(cell, M1_LAYER)
      /\ _get_layer_polys(cell', M2_LAYER) = _get_layer_polys(cell, M2_LAYER)
      /\ pc' = "done" =>
           /\ Len(vias') = Len(final')
           /\ \A i \in 1..Len(vias') :
                /\ vias'[i].layer = vspec.via_layer
                /\ vias'[i].x1 - vias'[i].x0 = H(vspec.via_x)
                /\ vias'[i].y1 - vias'[i].y0 = H(vspec.via_y)
                /\ vias'[i].x0 + vias'[i].x1 = H(final'[i][1])
                /\ vias'[i].y0 + vias'[i].y1 = H(final'[i][2])

\* C8: via generation leaves every rectangle of the cell as it is and appends
\* exactly the rectangles it returns: one via_x by via_y rectangle on the via
\* layer centred on each surviving centre.
C8_ViaFrame == [][ViaFrameStep]_vars

C8_Witness ==
    /\ pc = "done"
    /\ Len(vias) >= 3
    /\ Len(cell) > Len(vias) + 3

\* The points of s that come before s[i] in the order of the sweep along
\* axis: the stable sort of the points that share its track.
Before(s, i, axis, track) ==
    {j \in 1..Len(s) :
       /\ j # i
       /\ track[j] = track[i]
       /\ \/ s[j][axis] < s[i][axis]
          \/ s[j][axis] = s[i][axis] /\ j < i}

\* out is the greedy sweep of s: s[i] is kept iff it is at least pitch from
\* every kept point before it (the nearest of them is the last one kept).
Greedy(s, out, axis, track, pitch) ==
    /\ Range(out) \subseteq Range(s)
    /\ \A i \in 1..Len(s) :
         (s[i] \in Range(out)) <=>
            \A j \in Before(s, i, axis, track) :
               s[j] \in Range(out) => s[i][axis] - s[j][axis] >= H(pitch)

\* C10: column cleaning keeps the first centre of each x-track and any later
\* one iff it is at least via_pitch_y above the last centre kept; row
\* cleaning does the same on the survivors alone; the result is a subset of
\* the sampled centres.
C10_GreedySweep ==
    pc = "done" =>
      /\ Greedy(centers, kept, 2, XTrackOf(centers), vspec.via_pitch_y)
      /\ Greedy(kept, final, 1, YTrackOf(kept), vspec.via_pitch_x)
      /\ Range(final) \subseteq Range(centers)

\* three centres of one x-track: the middle one dropped, the third kept
\* though it is closer than via_pitch_y to the dropped one
C10_Witness ==
    /\ pc = "done"
    /\ LET xs == XTrackOf(centers)
       IN  \E i, j, k \in 1..Len(centers) :
             /\ xs[i] = xs[j] /\ xs[j] = xs[k]
             /\ centers[i][2] < centers[j][2] /\ centers[j][2] < centers[k][2]
             /\ centers[k][2] - centers[j][2] < H(vspec.via_pitch_y)
             /\ centers[i] \in Range(kept)
             /\ centers[j] \notin Range(kept)
             /\ centers[k] \in Range(kept)

\* C9: for valid specs the column loop, the fill loop of every column and
\* the strap loop end: the strap generator returns.
C9_Termination == <>(pc = "vias")

\* both generators have returned after columns of several segments and gaps,
\* one of which ran out of room below total_y
C9_Witness ==
    /\ pc = "vias"
    /\ Len(columns) >= 2
    /\ gaps >= 2
    /\ Cardinality(Straps) >= 2
    /\ \E c \in Tracks :
         \A r \in Tracks : r.x0 = c.x0 => r.y1 < H(spec.origin[2] + spec.total_y)

C5_EagerValidation ==
    /\ MalformedMetal(spec) => pc = "init"
    /\ MalformedVia(vspec) => pc \notin {"sample", "done"}
====
